---- MODULE Spec2Model ----
(***************************************************************************)
(* A model of src/main.py, the CTEX to image converter:                    *)
(*   convert_ctex_to_image  one container file -> one image file           *)
(*   find_ctex_files        recursive discovery of *.ctex files            *)
(*   main                   the batch driver                               *)
(*                                                                         *)
(* Data representation.                                                    *)
(*   character   a one-character string                                    *)
(*   name        a sequence of characters (a file or directory name)       *)
(*   path        a sequence of names, relative to the working directory;   *)
(*               << >> is the working directory itself                     *)
(*   bytes       a sequence of integers in 0..255                          *)
(*   filesystem  a function from paths to nodes; a node is a directory or  *)
(*               a regular file with its bytes                             *)
(*   message     a sequence of text fragments (an f-string's parts)        *)
(***************************************************************************)
EXTENDS Integers, Sequences, FiniteSets, TLC

VARIABLES
    fs,             \* the filesystem
    last,           \* the latest direct call of convert_ctex_to_image
    reruns,         \* how many times the latest direct call was repeated
    pc,             \* main: "start", "loop", "done", or "idle" (not running)
    ctex_files,     \* main: the discovered paths
    idx,            \* main: the number of files processed by the loop
    success_count,  \* main
    error_count,    \* main
    calls,          \* main: the calls of the converter made so far, in order
    fs0,            \* main: the filesystem when main started
    report          \* main: what the final part of the console report says

vars == <<fs, last, reruns, pc, ctex_files, idx, success_count, error_count,
          calls, fs0, report>>

(***************************************************************************)
(* Bounds of the model.                                                    *)
(***************************************************************************)
\* the largest number of bytes (or directories) a failing write (or mkdir)
\* leaves behind
MaxPartial == 1
\* the largest number of files in the tree main runs on
MaxFiles == 2
\* the largest number of injected I/O faults in one run of main
MaxFaults == 1
\* the largest number of times a direct call is repeated
MaxReruns == 1

(***************************************************************************)
(* Sequences.                                                              *)
(***************************************************************************)
Min(a, b) == IF a < b THEN a ELSE b

Front(s) == SubSeq(s, 1, Len(s) - 1)

Last(s) == s[Len(s)]

Range(s) == {s[i] : i \in 1..Len(s)}

IsPrefix(s, t) == Len(s) <= Len(t) /\ SubSeq(t, 1, Len(s)) = s

\* every ordering of a finite set, as sequences without repetition
RECURSIVE Perms(_)
Perms(S) ==
    IF S = {} THEN {<<>>}
    ELSE UNION {{<<x>> \o t : t \in Perms(S \ {x})} : x \in S}

(***************************************************************************)
(* Text: str.lower, str.endswith, decimal formatting, Path.stem.           *)
(***************************************************************************)
\* str.lower on one character
LowerChar(c) ==
    CASE c = "A" -> "a"
      [] c = "B" -> "b"
      [] c = "C" -> "c"
      [] c = "E" -> "e"
      [] c = "T" -> "t"
      [] c = "X" -> "x"
      [] OTHER -> c

\* file.lower()
Lower(name) == [i \in 1..Len(name) |-> LowerChar(name[i])]

\* s.endswith(suffix)
EndsWith(s, suffix) ==
    /\ Len(suffix) <= Len(s)
    /\ SubSeq(s, Len(s) - Len(suffix) + 1, Len(s)) = suffix

DotCtex == <<".", "c", "t", "e", "x">>

\* IsCtexName comparing the case too, as with file.endswith('.ctex')
IsCtexName_CaseSensitive(name) == EndsWith(name, DotCtex)

\* file.lower().endswith('.ctex')
IsCtexName(name) == EndsWith(Lower(name), DotCtex)

DigitChar(d) ==
    CASE d = 0 -> "0" [] d = 1 -> "1" [] d = 2 -> "2" [] d = 3 -> "3"
      [] d = 4 -> "4" [] d = 5 -> "5" [] d = 6 -> "6" [] d = 7 -> "7"
      [] d = 8 -> "8" [] d = 9 -> "9"

\* an f-string's {n}: the decimal digits of a natural number
RECURSIVE Decimal(_)
Decimal(n) ==
    IF n < 10 THEN <<DigitChar(n)>>
    ELSE Decimal(n \div 10) \o <<DigitChar(n % 10)>>

\* name.rfind('.'): the 0-based index of the last dot, -1 without one
RFindDot(name) ==
    LET at == {i \in 1..Len(name) : name[i] = "."}
    IN  IF at = {} THEN -1
        ELSE (CHOOSE i \in at : \A j \in at : j <= i) - 1

\* Path(...).stem: the name without its last suffix; a leading or a trailing
\* dot starts no suffix
Stem(name) ==
    LET i == RFindDot(name)
    IN  IF 0 < i /\ i < Len(name) - 1 THEN SubSeq(name, 1, i) ELSE name

(***************************************************************************)
(* Bytes and the container layout.                                         *)
(***************************************************************************)
\* f.seek(36): the offset of the format field
FormatOffset == 36
\* f.read(4): the width of the format field
FormatLen == 4
\* HeaderSize one too small, as in f.seek(55)
HeaderSize_OneLess == 56 - 1
\* f.seek(56): the length of the header, where the image data starts
HeaderSize == 56
\* MinSize one too small, as in file_size < 55
MinSize_OneLess == 56 - 1
\* if file_size < 56: the smallest file accepted
MinSize == 56

\* f.seek(off); f.read(n): at most n bytes from offset off, fewer at the
\* end of the file
ReadAt(data, off, n) == SubSeq(data, off + 1, Min(off + n, Len(data)))

\* ReadFrom reading one byte early, as after f.seek(off - 1)
ReadFrom_OneEarly(data, off) == SubSeq(data, off, Len(data))

\* f.seek(off); f.read(): every byte from offset off to the end of the file
ReadFrom(data, off) == SubSeq(data, off + 1, Len(data))

\* An unsigned 32-bit value is kept as two 16-bit halves, hi * 65536 + lo:
\* the model checker's integers are signed 32-bit, Python's are unbounded.
U32(hi, lo) == [hi |-> hi, lo |-> lo]

\* UnpackLE reading big-endian, as with struct.unpack('>I', b)
UnpackLE_BigEndian(b) == U32(b[2] + 256 * b[1], b[4] + 256 * b[3])

\* struct.unpack('<I', b)[0]: four bytes as a little-endian unsigned integer
UnpackLE(b) == U32(b[3] + 256 * b[4], b[1] + 256 * b[2])

\* t // 10 and t % 10 by long division over the halves
Div10(t) == U32(t.hi \div 10, ((t.hi % 10) * 65536 + t.lo) \div 10)

Mod10(t) == ((t.hi % 10) * 65536 + t.lo) % 10

\* an f-string's {format_type}: the decimal digits of a 32-bit value
RECURSIVE Decimal32(_)
Decimal32(t) ==
    IF t.hi = 0 THEN Decimal(t.lo)
    ELSE Decimal32(Div10(t)) \o <<DigitChar(Mod10(t))>>

\* format_map.get(format_type, f'.format{format_type}')
FormatExt(format_type) ==
    CASE format_type = U32(0, 0) -> <<".", "u", "n", "k", "n", "o", "w", "n">>
      [] format_type = U32(0, 1) -> <<".", "p", "n", "g">>
      [] format_type = U32(0, 2) -> <<".", "w", "e", "b", "p">>
      [] format_type = U32(0, 3) -> <<".", "b", "a", "s", "i", "s">>
      [] OTHER -> <<".", "f", "o", "r", "m", "a", "t">> \o Decimal32(format_type)

\* {0: 'IMAGE', ...}.get(format_type, f'UNKNOWN({format_type})')
FormatName(format_type) ==
    CASE format_type = U32(0, 0) -> <<"IMAGE">>
      [] format_type = U32(0, 1) -> <<"PNG">>
      [] format_type = U32(0, 2) -> <<"WEBP">>
      [] format_type = U32(0, 3) -> <<"BASIS_UNIVERSAL">>
      [] OTHER -> <<"UNKNOWN(">> \o Decimal32(format_type) \o <<")">>

(***************************************************************************)
(* The filesystem.                                                         *)
(***************************************************************************)
DirNode == [kind |-> "dir", data |-> <<>>]

FileNode(data) == [kind |-> "file", data |-> data]

Exists(f, p) == p \in DOMAIN f

IsDir(f, p) == Exists(f, p) /\ f[p].kind = "dir"

IsFile(f, p) == Exists(f, p) /\ f[p].kind = "file"

\* f with node n at path p, created or replaced
Put(f, p, n) == [q \in DOMAIN f \cup {p} |-> IF q = p THEN n ELSE f[q]]

\* the prefixes of p that are regular files, p itself included
FilePrefixes(f, p) == {i \in 0..Len(p) : IsFile(f, SubSeq(p, 1, i))}

\* the lengths of the prefixes of d that do not exist
MissingPrefixes(f, d) == {i \in 0..Len(d) : ~Exists(f, SubSeq(d, 1, i))}

\* open(p, 'rb'): the text of the error it raises, "" when it opens
OpenReadError(f, p) ==
    IF IsDir(f, p) THEN "[Errno 21] Is a directory"
    ELSE IF IsFile(f, p) THEN ""
    ELSE IF FilePrefixes(f, p) # {} THEN "[Errno 20] Not a directory"
    ELSE "[Errno 2] No such file or directory"

\* Path.mkdir(parents=True, exist_ok=True): the text of the error it raises
\* by itself, "" when it succeeds
MkdirError(f, d) ==
    IF IsFile(f, d) THEN "[Errno 17] File exists"
    ELSE IF FilePrefixes(f, d) # {} THEN "[Errno 20] Not a directory"
    ELSE ""

\* the first n missing ancestors of d (d included), created top-down
MkdirSome(f, d, n) ==
    LET miss == MissingPrefixes(f, d)
        made == {i \in miss : Cardinality({j \in miss : j <= i}) <= n}
    IN  [q \in DOMAIN f \cup {SubSeq(d, 1, i) : i \in made} |->
            IF q \in DOMAIN f THEN f[q] ELSE DirNode]

\* Path.mkdir(parents=True, exist_ok=True), succeeding
Mkdir(f, d) == MkdirSome(f, d, Len(d) + 1)

\* open(p, 'wb'): the text of the error it raises, "" when it opens
OpenWriteError(f, p) ==
    IF IsDir(f, p) THEN "[Errno 21] Is a directory" ELSE ""

\* OpenWrite keeping the old bytes, as with open(p, 'ab')
OpenWrite_Append(f, p) == IF IsFile(f, p) THEN f ELSE Put(f, p, FileNode(<<>>))

\* open(p, 'wb'), succeeding: the file is created, or truncated to nothing
OpenWrite(f, p) == Put(f, p, FileNode(<<>>))

\* out.write(data) on a file just opened with 'wb', then its close
WriteAll(f, p, data) == Put(f, p, FileNode(f[p].data \o data))

(***************************************************************************)
(* convert_ctex_to_image.                                                  *)
(*                                                                         *)
(* An argument output_dir is None, the empty string or a path; a result is *)
(* the tuple (success, output_path, error_message), its output_path the    *)
(* empty string or the text of a path.  A fault names the I/O step of the  *)
(* call that the environment makes fail, with the amount of work (bytes    *)
(* written, directories made) done before the failure shows.               *)
(***************************************************************************)
OdNone == [kind |-> "None", path |-> <<>>]

OdEmpty == [kind |-> "empty", path |-> <<>>]

OdPath(d) == [kind |-> "path", path |-> d]

EmptyStr == [empty |-> TRUE, path |-> <<>>]

\* str(output_path)
StrOf(p) == [empty |-> FALSE, path |-> p]

NoFault == [step |-> "none", k |-> 0]

FaultSteps ==
    {"open_in", "size", "read_format", "read_data", "mkdir", "open_out", "write"}

Faults ==
    {NoFault}
    \cup {[step |-> s, k |-> 0] : s \in FaultSteps}
    \cup {[step |-> s, k |-> k] : s \in {"mkdir", "write"}, k \in 1..MaxPartial}

\* str(e) of the OSError an injected fault raises
FaultText(fault) ==
    CASE fault.step = "open_in" -> "[Errno 13] Permission denied"
      [] fault.step = "mkdir" -> "[Errno 13] Permission denied"
      [] fault.step = "open_out" -> "[Errno 13] Permission denied"
      [] fault.step = "write" -> "[Errno 28] No space left on device"
      [] OTHER -> "[Errno 5] Input/output error"

Result(success, output_path, message) ==
    [success |-> success, output_path |-> output_path, message |-> message]

\* a return statement of the try block
Return(f, res) == [exc |-> FALSE, cause |-> "", fs |-> f, result |-> res]

\* an exception raised in the try block
Raise(f, cause) ==
    [exc |-> TRUE, cause |-> cause, fs |-> f,
     result |-> Result(FALSE, EmptyStr, <<>>)]

\* OutputPath keeping the input's name, the new extension forgotten
OutputPath_SameName(p, od, ext) ==
    IF od.kind = "path" THEN Append(od.path, Last(p))
    ELSE Append(Front(p), Last(p))

\* if output_dir: Path(output_dir) / (stem + ext)
\* else:          ctex_file.parent / (stem + ext)
OutputPath(p, od, ext) ==
    LET file_name == Stem(Last(p)) \o ext
    IN  IF od.kind = "path" THEN Append(od.path, file_name)
        ELSE Append(Front(p), file_name)

\* lines 68-82: the output directory, the output file, the success result
SaveImage(f, p, od, fault, format_type, image_data) ==
    LET output_path == OutputPath(p, od, FormatExt(format_type))
        parent == Front(output_path)
        made == Mkdir(f, parent)
    IN  IF MkdirError(f, parent) # "" THEN Raise(f, MkdirError(f, parent))
        ELSE IF fault.step = "mkdir" THEN
            Raise(MkdirSome(f, parent,
                            Min(fault.k, Cardinality(MissingPrefixes(f, parent)) - 1)),
                  FaultText(fault))
        ELSE IF OpenWriteError(made, output_path) # "" THEN
            Raise(made, OpenWriteError(made, output_path))
        ELSE IF fault.step = "open_out" THEN Raise(made, FaultText(fault))
        ELSE IF fault.step = "write" THEN
            Raise(WriteAll(OpenWrite(made, output_path), output_path,
                           SubSeq(image_data, 1,
                                  Min(fault.k, Len(image_data) - 1))),
                  FaultText(fault))
        ELSE Return(WriteAll(OpenWrite(made, output_path), output_path, image_data),
                    Result(TRUE, StrOf(output_path),
                           <<"Format: ">> \o FormatName(format_type)
                               \o <<", Size: ">> \o Decimal(Len(image_data))
                               \o <<" bytes">>))

\* lines 23-82: the body of the try statement
ConvertBody(f, p, od, fault) ==
    IF OpenReadError(f, p) # "" THEN Raise(f, OpenReadError(f, p))
    ELSE IF fault.step = "open_in" THEN Raise(f, FaultText(fault))
    ELSE
    LET data == f[p].data
        file_size == Len(data)
        format_bytes == ReadAt(data, FormatOffset, FormatLen)
        image_data == ReadFrom(data, HeaderSize)
    IN  IF fault.step = "size" THEN Raise(f, FaultText(fault))
        ELSE IF file_size < MinSize THEN
            Return(f, Result(FALSE, EmptyStr,
                             <<"File too small (">> \o Decimal(file_size)
                                 \o <<" bytes), minimum 56 bytes required">>))
        ELSE IF fault.step = "read_format" THEN Raise(f, FaultText(fault))
        ELSE IF Len(format_bytes) < FormatLen THEN
            Return(f, Result(FALSE, EmptyStr,
                             <<"Failed to read format information">>))
        ELSE IF fault.step = "read_data" THEN Raise(f, FaultText(fault))
        ELSE IF image_data = <<>> THEN
            Return(f, Result(FALSE, EmptyStr,
                             <<"No image data found after header">>))
        ELSE SaveImage(f, p, od, fault, UnpackLE(format_bytes), image_data)

\* ExceptException catching less, as with except FileNotFoundError
ExceptException_OnlyNotFound(b) ==
    IF b.cause = "[Errno 2] No such file or directory"
    THEN [exc |-> FALSE, cause |-> b.cause, fs |-> b.fs,
          result |-> Result(FALSE, EmptyStr, <<"Error processing file: ", b.cause>>)]
    ELSE b

\* lines 84-85: except Exception as e
ExceptException(b) ==
    [exc |-> FALSE, cause |-> b.cause, fs |-> b.fs,
     result |-> Result(FALSE, EmptyStr, <<"Error processing file: ", b.cause>>)]

\* convert_ctex_to_image without its try statement
convert_ctex_to_image_NoTry(f, p, od, fault) == ConvertBody(f, p, od, fault)

\* the call: what it returns, whether it raises, the filesystem it leaves
convert_ctex_to_image(f, p, od, fault) ==
    LET b == ConvertBody(f, p, od, fault)
    IN  IF b.exc THEN ExceptException(b) ELSE b

(***************************************************************************)
(* find_ctex_files.                                                        *)
(*                                                                         *)
(* os.walk lists a directory in the order the operating system gives, so   *)
(* the result is one of several orderings: WalkOrders is the set of them.  *)
(***************************************************************************)
\* the entries of directory d
Children(f, d) == {p \in DOMAIN f : Len(p) = Len(d) + 1 /\ IsPrefix(d, p)}

\* os.walk's files of d: the entries that are not directories
WalkFiles(f, d) == {p \in Children(f, d) : ~IsDir(f, p)}

\* os.walk's dirs of d
WalkDirs(f, d) == {p \in Children(f, d) : IsDir(f, p)}

\* lines 99-101: the files of one directory, in the order listed, that match
MatchingFiles(listing) == SelectSeq(listing, LAMBDA p : IsCtexName(Last(p)))

RECURSIVE WalkOrders(_, _)
RECURSIVE WalkEach(_, _)

\* the results of walking each directory of a sequence in turn
WalkEach(f, ds) ==
    IF ds = <<>> THEN {<<>>}
    ELSE {a \o b : a \in WalkOrders(f, Head(ds)), b \in WalkEach(f, Tail(ds))}

\* lines 97-102: the lists find_ctex_files(d) can return, top-down
WalkOrders(f, d) ==
    {MatchingFiles(files) \o below :
        files \in Perms(WalkFiles(f, d)),
        below \in UNION {WalkEach(f, ds) : ds \in Perms(WalkDirs(f, d))}}

find_ctex_files(f, directory) ==
    IF IsDir(f, directory) THEN WalkOrders(f, directory) ELSE {<<>>}

(***************************************************************************)
(* Direct calls of the converter.                                          *)
(***************************************************************************)
NoCall ==
    [called |-> FALSE, path |-> <<>>, od |-> OdNone, fault |-> NoFault,
     before |-> <<>>, result |-> Result(FALSE, EmptyStr, <<>>),
     raised |-> FALSE, cause |-> ""]

NoReport == [kind |-> "none", success |-> 0, errors |-> 0, note |-> FALSE]

\* a call convert_ctex_to_image(p, od), the environment failing at `fault`
Call(p, od, fault) ==
    LET r == convert_ctex_to_image(fs, p, od, fault)
    IN  /\ fs' = r.fs
        /\ last' = [called |-> TRUE, path |-> p, od |-> od, fault |-> fault,
                    before |-> fs, result |-> r.result, raised |-> r.exc,
                    cause |-> r.cause]
        /\ UNCHANGED <<pc, ctex_files, idx, success_count, error_count,
                       calls, fs0, report>>

\* the first call
ConvertCall(p, od, fault) ==
    /\ pc = "idle"
    /\ ~last.called
    /\ Call(p, od, fault)
    /\ reruns' = 0

\* the same call once more, in the same environment
ConvertAgain ==
    /\ pc = "idle"
    /\ last.called
    /\ reruns < MaxReruns
    /\ Call(last.path, last.od, last.fault)
    /\ reruns' = reruns + 1

(***************************************************************************)
(* main.                                                                   *)
(***************************************************************************)
FaultsUsed == Cardinality({i \in 1..Len(calls) : calls[i].fault # NoFault})

\* lines 110-127: discovery; the notice and the return when nothing is found
MainStart ==
    /\ pc = "start"
    /\ \E found \in find_ctex_files(fs, <<>>) :
        /\ ctex_files' = found
        /\ IF found = <<>>
           THEN /\ pc' = "done"
                /\ report' = [NoReport EXCEPT !.kind = "nothing found"]
           ELSE /\ pc' = "loop"
                /\ report' = report
    /\ idx' = 0
    /\ success_count' = 0
    /\ error_count' = 0
    /\ UNCHANGED <<fs, last, reruns, calls, fs0>>

\* lines 129-143: one iteration of the loop
MainStep ==
    /\ pc = "loop"
    /\ idx < Len(ctex_files)
    /\ \E fault \in Faults :
        /\ fault # NoFault => FaultsUsed < MaxFaults
        /\ LET ctex_file == ctex_files[idx + 1]
               r == convert_ctex_to_image(fs, ctex_file, OdNone, fault)
           IN  /\ fs' = r.fs
               /\ calls' = Append(calls, [path |-> ctex_file, fault |-> fault,
                                          result |-> r.result])
               /\ IF r.exc
                  THEN /\ pc' = "aborted"
                       /\ UNCHANGED <<success_count, error_count>>
                  ELSE /\ pc' = pc
                       /\ IF r.result.success
                          THEN /\ success_count' = success_count + 1
                               /\ error_count' = error_count
                          ELSE /\ error_count' = error_count + 1
                               /\ success_count' = success_count
    /\ idx' = idx + 1
    /\ UNCHANGED <<last, reruns, ctex_files, fs0, report>>

\* lines 145-151: the summary
MainFinish ==
    /\ pc = "loop"
    /\ idx = Len(ctex_files)
    /\ pc' = "done"
    /\ report' = [kind |-> "summary", success |-> success_count,
                  errors |-> error_count, note |-> error_count > 0]
    /\ UNCHANGED <<fs, last, reruns, ctex_files, idx, success_count,
                   error_count, calls, fs0>>

(***************************************************************************)
(* The inputs the model draws from: names, containers, trees.              *)
(***************************************************************************)
N_a_ctex == <<"a", ".", "c", "t", "e", "x">>
N_a_CTEX == <<"a", ".", "C", "T", "E", "X">>
N_Ctex == <<".", "C", "t", "e", "x">>
N_ctex == <<".", "c", "t", "e", "x">>
N_actex == <<"a", "c", "t", "e", "x">>
N_a_png == <<"a", ".", "p", "n", "g">>
N_a_webp == <<"a", ".", "w", "e", "b", "p">>
N_a_ctex_bak == <<"a", ".", "c", "t", "e", "x", ".", "b", "a", "k">>
N_gone_ctex == <<"g", "o", "n", "e", ".", "c", "t", "e", "x">>
N_sub == <<"s", "u", "b">>
N_deep == <<"d", "e", "e", "p">>
N_out == <<"o", "u", "t">>
N_blk == <<"b", "l", "k">>
N_d_ctex == <<"d", ".", "c", "t", "e", "x">>

\* a container file: 36 bytes, the 4 bytes of the format field, 16 bytes, the
\* payload; the byte at offset i outside the format field holds i
Container(format_bytes, payload) ==
    [i \in 1..56 |-> IF i \in 37..40 THEN format_bytes[i - 36] ELSE i - 1]
    \o payload

PngMagic == <<137, 80, 78, 71>>

OtherData == <<0, 255>>

FormatFields ==
    {<<0, 0, 0, 0>>, <<1, 0, 0, 0>>, <<2, 0, 0, 0>>, <<3, 0, 0, 0>>,
     <<4, 0, 0, 0>>, <<7, 0, 0, 0>>, <<0, 1, 0, 0>>, <<0, 0, 0, 1>>,
     <<7, 1, 0, 0>>, <<0, 0, 0, 128>>, <<255, 255, 255, 255>>}

\* files shorter than the header
ShortFiles ==
    {SubSeq(Container(<<1, 0, 0, 0>>, <<>>), 1, n) : n \in {0, 1, 38, 55}}

\* the file contents a direct call is tried on
Contents ==
    ShortFiles
    \cup {Container(t, PngMagic) : t \in FormatFields}
    \cup {Container(t, d) : t \in {<<1, 0, 0, 0>>, <<7, 0, 0, 0>>},
                            d \in {<<>>, <<137>>, OtherData}}

\* the file contents of the trees main runs on
BatchContents ==
    {Container(<<1, 0, 0, 0>>, <<>>),
     Container(<<1, 0, 0, 0>>, PngMagic),
     Container(<<1, 0, 0, 0>>, OtherData),
     Container(<<7, 0, 0, 0>>, OtherData)}

\* f with every path of the function `more` added
Plus(f, more) ==
    [q \in DOMAIN f \cup DOMAIN more |-> IF q \in DOMAIN more THEN more[q] ELSE f[q]]

\* the directories and the other files every tree of the model holds
Skeleton ==
    [q \in {<<>>, <<N_sub>>, <<N_sub, N_deep>>, <<N_sub, N_a_webp>>,
            <<N_d_ctex>>, <<N_blk>>} |->
        IF q = <<N_blk>> THEN FileNode(<<1, 2, 3>>) ELSE DirNode]

\* where the input of a direct call lies
InputPaths ==
    {<<N_a_ctex>>, <<N_sub, N_a_CTEX>>, <<N_a_png>>, <<N_ctex>>,
     <<N_a_ctex_bak>>}

\* the paths a direct call is given
CallPaths ==
    InputPaths \cup {<<N_gone_ctex>>, <<N_sub>>, <<N_blk, N_a_ctex>>, <<>>}

\* the output_dir arguments a direct call is given
OutputDirs ==
    {OdNone, OdEmpty, OdPath(<<>>), OdPath(<<N_out, N_deep>>),
     OdPath(<<N_blk>>), OdPath(<<N_blk, N_out>>), OdPath(<<N_sub>>)}

\* a file that was at the output path before the call, longer than any payload
OldOutput == FileNode(<<9, 9, 9, 9, 9, 9>>)

\* where the files of a tree main runs on may lie
BatchPaths ==
    {<<N_a_ctex>>, <<N_a_CTEX>>, <<N_a_png>>, <<N_actex>>,
     <<N_sub, N_Ctex>>, <<N_sub, N_deep, N_a_ctex>>}

(***************************************************************************)
(* The specifications.                                                     *)
(***************************************************************************)
\* direct calls of the converter, on a tree with one input file
InitConvert ==
    /\ \E p \in InputPaths, c \in Contents, old \in BOOLEAN :
        fs = Plus(Plus(Skeleton, [q \in {p} |-> FileNode(c)]),
                  IF old /\ p # <<N_a_png>>
                  THEN [q \in {<<N_a_png>>} |-> OldOutput]
                  ELSE [q \in {} |-> DirNode])
    /\ last = NoCall
    /\ reruns = 0
    /\ pc = "idle"
    /\ ctex_files = <<>>
    /\ idx = 0
    /\ success_count = 0
    /\ error_count = 0
    /\ calls = <<>>
    /\ fs0 = fs
    /\ report = NoReport

NextConvert ==
    \/ \E p \in CallPaths, od \in OutputDirs, fault \in Faults :
        ConvertCall(p, od, fault)
    \/ ConvertAgain

SpecConvert == InitConvert /\ [][NextConvert]_vars

\* one run of main, on a tree of at most MaxFiles files
InitBatch ==
    /\ \E S \in SUBSET BatchPaths :
        /\ Cardinality(S) <= MaxFiles
        /\ \E c \in [S -> BatchContents] :
            fs = Plus(Skeleton, [q \in S |-> FileNode(c[q])])
    /\ last = NoCall
    /\ reruns = 0
    /\ pc = "start"
    /\ ctex_files = <<>>
    /\ idx = 0
    /\ success_count = 0
    /\ error_count = 0
    /\ calls = <<>>
    /\ fs0 = fs
    /\ report = NoReport

NextBatch == MainStart \/ MainStep \/ MainFinish

SpecBatch == InitBatch /\ [][NextBatch]_vars

\* either use of the program
Init == InitConvert \/ InitBatch

Next == NextConvert \/ NextBatch

Spec == Init /\ [][Next]_vars

(***************************************************************************)
(* What the claims are stated with: the container layout and the texts,    *)
(* read independently of the converter.                                    *)
(***************************************************************************)
\* the bytes of the input file the latest direct call was given
InputBytes == last.before[last.path].data

\* the latest direct call was given a regular file
InputIsFile == last.called /\ IsFile(last.before, last.path)

\* the path the latest direct call reports it wrote
OutPath == last.result.output_path.path

\* the format tag of a container: bytes 36..39, little-endian
TagOf(data) == U32(data[39] + 256 * data[40], data[37] + 256 * data[38])

\* bytes 56.. of a file
PayloadOf(data) == [i \in 1..(Len(data) - 56) |-> data[56 + i]]

DigitValue(c) ==
    CASE c = "0" -> 0 [] c = "1" -> 1 [] c = "2" -> 2 [] c = "3" -> 3
      [] c = "4" -> 4 [] c = "5" -> 5 [] c = "6" -> 6 [] c = "7" -> 7
      [] c = "8" -> 8 [] c = "9" -> 9 [] OTHER -> -1

\* a decimal numeral: digits only, no leading zero
IsNumeral(ds) ==
    /\ Len(ds) >= 1
    /\ \A i \in 1..Len(ds) : DigitValue(ds[i]) >= 0
    /\ Len(ds) > 1 => ds[1] # "0"

\* the number a numeral of a few digits denotes
RECURSIVE NumeralValue(_)
NumeralValue(ds) ==
    IF ds = <<>> THEN 0
    ELSE 10 * NumeralValue(Front(ds)) + DigitValue(Last(ds))

\* the 32-bit value a numeral denotes, in halves
RECURSIVE NumeralValue32(_)
NumeralValue32(ds) ==
    IF ds = <<>> THEN U32(0, 0)
    ELSE LET v == NumeralValue32(Front(ds))
             lo == 10 * v.lo + DigitValue(Last(ds))
         IN  U32(10 * v.hi + lo \div 65536, lo % 65536)

\* a name ends in .ctex, whatever the case of its letters
CtexLike(name) ==
    LET n == Len(name)
    IN  /\ n >= 5
        /\ name[n - 4] = "."
        /\ name[n - 3] \in {"c", "C"}
        /\ name[n - 2] \in {"t", "T"}
        /\ name[n - 1] \in {"e", "E"}
        /\ name[n] \in {"x", "X"}

KnownExts ==
    {<<".", "u", "n", "k", "n", "o", "w", "n">>, <<".", "p", "n", "g">>,
     <<".", "w", "e", "b", "p">>, <<".", "b", "a", "s", "i", "s">>}

DotFormat == <<".", "f", "o", "r", "m", "a", "t">>

\* what follows the input's base name in the output's name
OutExt ==
    LET name == Last(OutPath)
        stem == Stem(Last(last.path))
    IN  SubSeq(name, Len(stem) + 1, Len(name))

\* the latest direct call succeeded
Converted == last.called /\ last.result.success

(***************************************************************************)
(* The claims.                                                             *)
(***************************************************************************)
\* C1: when a direct call converts a file of at least 56 bytes, the output
\* file holds exactly the input's bytes from offset 56 to the end: the same
\* length, the same bytes in the same order, nothing of the header and
\* nothing appended (whatever was at the output path before).
C1_PayloadVerbatim ==
    (Converted /\ InputIsFile /\ Len(InputBytes) >= 56) =>
        /\ ~last.result.output_path.empty
        /\ IsFile(fs, OutPath)
        /\ fs[OutPath].data = PayloadOf(InputBytes)

\* a conversion that replaced an older, longer file at the output path
C1_Witness ==
    /\ Converted
    /\ Len(InputBytes) = 60
    /\ IsFile(last.before, OutPath)
    /\ Len(last.before[OutPath].data) > 4
    /\ fs[OutPath].data = <<137, 80, 78, 71>>

\* C2: a direct call on a file shorter than 56 bytes (an empty one included)
\* that can be opened and sized returns failure with the file-too-small
\* text, the size in the text is the length of the file, and the filesystem
\* is left as it was.
C2_TooSmall ==
    (InputIsFile /\ Len(InputBytes) < 56
        /\ last.fault.step \notin {"open_in", "size"}) =>
        LET m == last.result.message
        IN  /\ ~last.raised
            /\ ~last.result.success
            /\ last.result.output_path = EmptyStr
            /\ Len(m) >= 3
            /\ Head(m) = "File too small ("
            /\ Last(m) = " bytes), minimum 56 bytes required"
            /\ IsNumeral(SubSeq(m, 2, Len(m) - 1))
            /\ NumeralValue(SubSeq(m, 2, Len(m) - 1)) = Len(InputBytes)
            /\ fs = last.before

\* a call on a file of 55 bytes, an output directory asked for
C2_Witness ==
    /\ InputIsFile
    /\ Len(InputBytes) = 55
    /\ last.od = OdPath(<<N_out, N_deep>>)
    /\ last.fault = NoFault
    /\ ~last.result.success

\* C3: the output's name is the input's base name followed by an extension
\* that the format tag at bytes 36..39 (little-endian) decides alone:
\* 0 .unknown, 1 .png, 2 .webp, 3 .basis, and for any other tag t the text
\* .format followed by the decimal numeral of t, which is none of the four
\* known extensions and from which t can be read back (so two unrecognized
\* tags never share an extension).
C3_ExtensionFromTag ==
    (Converted /\ InputIsFile) =>
        LET tag == TagOf(InputBytes)
            ext == OutExt
            num == SubSeq(ext, Len(DotFormat) + 1, Len(ext))
        IN  /\ Last(OutPath) = Stem(Last(last.path)) \o ext
            /\ tag = U32(0, 0) => ext = <<".", "u", "n", "k", "n", "o", "w", "n">>
            /\ tag = U32(0, 1) => ext = <<".", "p", "n", "g">>
            /\ tag = U32(0, 2) => ext = <<".", "w", "e", "b", "p">>
            /\ tag = U32(0, 3) => ext = <<".", "b", "a", "s", "i", "s">>
            /\ tag \notin {U32(0, 0), U32(0, 1), U32(0, 2), U32(0, 3)} =>
                /\ ext \notin KnownExts
                /\ IsPrefix(DotFormat, ext)
                /\ IsNumeral(num)
                /\ NumeralValue32(num) = tag

\* a conversion of a container whose tag has its top bit set
C3_Witness ==
    /\ Converted
    /\ TagOf(InputBytes) = U32(32768, 0)
    /\ OutExt = DotFormat \o <<"2", "1", "4", "7", "4", "8", "3", "6", "4", "8">>

\* C4: a direct call never raises to its caller; when a step of it fails
\* (the input cannot be opened, a seek or a read fails, the output directory
\* cannot be made, the output cannot be opened or written), it returns
\* failure, with an empty output path and a diagnostic that holds the text
\* of the cause; a missing or unopenable input and an unusable output
\* directory are such failures.
C4_NeverRaises ==
    last.called =>
        /\ ~last.raised
        /\ last.cause # "" =>
            /\ ~last.result.success
            /\ last.result.output_path = EmptyStr
            /\ last.result.message # <<>>
            /\ last.cause \in Range(last.result.message)
        /\ ~IsFile(last.before, last.path) => last.cause # ""
        /\ (IsFile(last.before, last.path) /\ last.fault.step \in {"open_in", "size"})
            => last.cause # ""
        /\ (IsFile(last.before, last.path) /\ Len(InputBytes) >= 56
            /\ last.fault.step \in {"read_format", "read_data"}) => last.cause # ""
        /\ (IsFile(last.before, last.path) /\ Len(InputBytes) > 56
            /\ last.fault.step \in {"mkdir", "open_out", "write"}) => last.cause # ""
        /\ (IsFile(last.before, last.path) /\ Len(InputBytes) > 56
            /\ last.od.kind = "path"
            /\ FilePrefixes(last.before, last.od.path) # {}) => last.cause # ""
        /\ last.result.success => last.cause = ""

\* a call whose write failed with the output file already opened
C4_Witness ==
    /\ last.called
    /\ last.fault.step = "write"
    /\ last.cause = "[Errno 28] No space left on device"
    /\ ~last.result.success
    /\ \E q \in DOMAIN fs : q \notin DOMAIN last.before

\* C6: a direct call on a file of exactly 56 bytes that can be opened and
\* read returns failure with the text "No image data found after header",
\* whatever the format tag, and leaves the filesystem as it was.
C6_HeaderOnly ==
    (InputIsFile /\ Len(InputBytes) = 56
        /\ last.fault.step \notin {"open_in", "size", "read_format", "read_data"}) =>
        /\ ~last.raised
        /\ ~last.result.success
        /\ last.result.output_path = EmptyStr
        /\ last.result.message = <<"No image data found after header">>
        /\ fs = last.before

\* a call on a header-only file with an unrecognized tag, an output
\* directory asked for
C6_Witness ==
    /\ InputIsFile
    /\ Len(InputBytes) = 56
    /\ TagOf(InputBytes) = U32(0, 7)
    /\ last.od = OdPath(<<N_out, N_deep>>)
    /\ last.fault = NoFault
    /\ ~last.result.success

\* the node at path p is the same in f and g
SameNode(f, g, p) ==
    /\ Exists(f, p) <=> Exists(g, p)
    /\ Exists(f, p) => f[p] = g[p]

\* C7: when a direct call is repeated with the same arguments, no I/O step
\* failing in either run and the first run having left the input as it was,
\* the second run returns the result of the first and leaves the filesystem
\* exactly as the first left it: the output is rewritten with the same
\* bytes, nothing is appended, no further file or directory appears.
C7_Idempotent ==
    [][(/\ last.called
        /\ last'.called
        /\ reruns' = reruns + 1
        /\ last.fault = NoFault
        /\ SameNode(last.before, fs, last.path))
       => (/\ last'.path = last.path
           /\ last'.od = last.od
           /\ last'.result = last.result
           /\ fs' = fs)]_vars

\* a conversion run a second time, the output of the first run in place
C7_Witness ==
    /\ Converted
    /\ reruns >= 1
    /\ last.fault = NoFault
    /\ SameNode(fs0, last.before, last.path)
    /\ IsFile(last.before, OutPath)
    /\ fs = last.before

(***************************************************************************)
(* The claims about main and find_ctex_files.                              *)
(***************************************************************************)
\* the calls of the converter that returned success, and those that did not
Succeeded == {i \in 1..Len(calls) : calls[i].result.success}

Failed == {i \in 1..Len(calls) : ~calls[i].result.success}

\* the regular files of the tree main started on whose name ends in .ctex
CtexFilesOf(f) == {p \in DOMAIN f : f[p].kind = "file" /\ CtexLike(Last(p))}

RECURSIVE RunAll(_, _)
RunAll(f, order) ==
    IF order = <<>> THEN f
    ELSE RunAll(convert_ctex_to_image(f, Head(order), OdNone, NoFault).fs,
                Tail(order))

\* C8: the conversions of a run are independent: with no I/O step failing,
\* every order of processing the discovered files leaves the same tree, and
\* when main is done the output path of every converted file holds that
\* file's own payload.
C8_OrderIrrelevant ==
    (pc = "done" /\ FaultsUsed = 0) =>
        /\ \A order \in Perms(Range(ctex_files)) : RunAll(fs0, order) = fs
        /\ \A i \in Succeeded :
            LET out == calls[i].result.output_path.path
            IN  /\ IsFile(fs, out)
                /\ fs[out].data = PayloadOf(fs0[calls[i].path].data)

\* C9: find_ctex_files returns each regular file of the tree, at any depth,
\* whose name ends in .ctex in any case of the letters, once, and nothing
\* else (no other file, no directory); it returns the empty list when there
\* is none, and it leaves the filesystem as it was.
C9_Discovery ==
    pc # "start" =>
        /\ \A i, j \in 1..Len(ctex_files) :
            i # j => ctex_files[i] # ctex_files[j]
        /\ Range(ctex_files) = CtexFilesOf(fs0)
        /\ idx = 0 => fs = fs0

\* a discovery that found a file three levels down and a file named in
\* upper case, in a tree that holds a directory named d.ctex
C9_Witness ==
    /\ pc = "loop"
    /\ idx = 0
    /\ <<N_sub, N_deep, N_a_ctex>> \in Range(ctex_files)
    /\ <<N_a_CTEX>> \in Range(ctex_files)
    /\ IsDir(fs, <<N_d_ctex>>)

\* a name ends in one of the extensions the converter gives
HasOutputExt(name) ==
    \E k \in 1..Len(name) :
        LET e == SubSeq(name, k, Len(name))
        IN  \/ e \in KnownExts
            \/ /\ IsPrefix(DotFormat, e)
               /\ IsNumeral(SubSeq(e, Len(DotFormat) + 1, Len(e)))

\* C10: main never modifies a discovered file: every output name ends in
\* .unknown, .png, .webp, .basis or .format<t> and not in .ctex, every
\* output path differs from every discovered path, every discovered file
\* holds the bytes it held when main started, and nothing main wrote or
\* changed has a name discovery would match; whatever I/O step fails.
C10_InputsUntouched ==
    pc # "start" =>
        /\ \A p \in Range(ctex_files) : SameNode(fs0, fs, p)
        /\ \A i \in Succeeded :
            LET out == calls[i].result.output_path.path
            IN  /\ out \notin Range(ctex_files)
                /\ HasOutputExt(Last(out))
                /\ ~CtexLike(Last(out))
        /\ \A p \in DOMAIN fs :
            ~SameNode(fs0, fs, p) => ~CtexLike(Last(p))

\* a finished run that converted a.ctex and replaced the a.png that was
\* there before
C10_Witness ==
    /\ pc = "done"
    /\ ctex_files = <<<<N_a_ctex>>>>
    /\ Succeeded = {1}
    /\ IsFile(fs0, <<N_a_png>>)
    /\ fs[<<N_a_png>>] # fs0[<<N_a_png>>]

====
